---- MODULE Spec2Model ----
(***************************************************************************)
(* NestEventsManager: the /events resource.                                *)
(*                                                                         *)
(* The state is the `event` table behind Repository<Event> (store: the      *)
(* rows by primary key), its auto-increment counter (autoInc) and the      *)
(* last request with its response (last).  One action per route of         *)
(* EventsController; in Spec every handler runs to completion.             *)
(*                                                                         *)
(* update and remove await findOneBy before they await save or remove, so  *)
(* two requests can interleave between the two store calls.  SpecRace runs *)
(* two such requests step by step; inflight holds, per request, what its   *)
(* handler has read so far.                                                *)
(*                                                                         *)
(* A request body is a function from the property names it carries to      *)
(* their values: an omitted property is simply not in its DOMAIN.  Bodies  *)
(* are plain JSON objects, so besides the four properties CreateEventDto   *)
(* declares a body may carry others; the ValidationPipe instances of the   *)
(* controller are built without `whitelist`, which keeps them.             *)
(*                                                                         *)
(* Column constraints of the table (event.entity.ts) are not part of the   *)
(* sources modelled here: save stores the object it is given.              *)
(***************************************************************************)
EXTENDS Integers, Sequences, FiniteSets, TLC

VARIABLES store, autoInc, last, inflight

vars == <<store, autoInc, last, inflight>>

\* Largest identifier the auto-increment counter hands out in the model.
MaxId == 2

Fields == {"name", "description", "when", "address"}

(***************************************************************************)
(* Dates.  new Date(s) of an ISO-8601 string is the instant it denotes;    *)
(* of anything else (undefined included) it is the Invalid Date.  A Date   *)
(* is modelled by its toISOString() rendering.                             *)
(***************************************************************************)
IsoInstant ==
    [s \in {"2022-02-02", "2022-02-02T00:00:00.000Z", "2023-03-03T10:00:00Z"} |->
        CASE s = "2022-02-02"               -> "2022-02-02T00:00:00.000Z"
          [] s = "2022-02-02T00:00:00.000Z" -> "2022-02-02T00:00:00.000Z"
          [] s = "2023-03-03T10:00:00Z"     -> "2023-03-03T10:00:00.000Z"]

InvalidDate == [iso |-> "Invalid Date"]

\* new Date(input.when); `input` may lack the property.
NewDate(input) ==
    IF "when" \in DOMAIN input /\ input["when"] \in DOMAIN IsoInstant
    THEN [iso |-> IsoInstant[input["when"]]]
    ELSE InvalidDate

\* JavaScript truthiness of input.when: undefined and "" are falsy.
Truthy(input) == "when" \in DOMAIN input /\ input["when"] # ""

(***************************************************************************)
(* class-validator metadata.  Each decorator of CreateEventDto registers   *)
(* one entry; `groups` is the decorator's groups option (empty when the    *)
(* decorator names none) and `message` its message option ("" = default).  *)
(***************************************************************************)
CreateEventDto ==
    { [property |-> "name", type |-> "length", min |-> 5, max |-> 255,
       groups |-> {}, message |-> "name must have a length between [5,25]"],
      [property |-> "description", type |-> "isString", min |-> 0, max |-> 0,
       groups |-> {}, message |-> ""],
      [property |-> "description", type |-> "length", min |-> 5, max |-> 255,
       groups |-> {}, message |-> ""],
      [property |-> "when", type |-> "isDateString", min |-> 0, max |-> 0,
       groups |-> {}, message |-> ""],
      [property |-> "address", type |-> "length", min |-> 5, max |-> 255,
       groups |-> {"create"}, message |-> ""],
      [property |-> "address", type |-> "length", min |-> 10, max |-> 20,
       groups |-> {"update"}, message |-> ""] }

\* PartialType(CreateEventDto): the inherited metadata plus an IsOptional()
\* on every property; IsOptional() is registered without options.
UpdateEventDto ==
    CreateEventDto \cup
    { [property |-> p, type |-> "isOptional", min |-> 0, max |-> 0,
       groups |-> {}, message |-> ""] : p \in Fields }

\* Mutant of TargetMetadatas: the groups of the run are ignored.
TargetMetadatasUngrouped(dto, groups) == dto

\* The metadata a validation run uses.  A run without groups uses all of it;
\* a run with groups uses the entries tagged with one of them (no decorator
\* here sets `always`, and neither pipe does).
TargetMetadatas(dto, groups) ==
    {m \in dto : groups = {} \/ m.groups \cap groups # {}}

\* Does `value` of `input` satisfy rule m?  (All body values of the model are
\* strings, so typeof value === 'string' is: the property is present.)
Satisfies(m, input) ==
    LET present == m.property \in DOMAIN input
    IN CASE m.type = "length" ->
              /\ present
              /\ Len(input[m.property]) >= m.min
              /\ Len(input[m.property]) <= m.max
         [] m.type = "isString" -> present
         [] m.type = "isDateString" ->
              present /\ input[m.property] \in DOMAIN IsoInstant
         [] OTHER -> TRUE

\* The message of a violated rule: the decorator's own, or the default.
MessageOf(m, input) ==
    IF m.message # "" THEN m.message
    ELSE CASE m.type = "isString" -> m.property \o " must be a string"
           [] m.type = "isDateString" ->
                m.property \o " must be a valid ISO 8601 date string"
           [] m.type = "length" ->
                IF \/ m.property \notin DOMAIN input
                   \/ Len(input[m.property]) < m.min
                THEN m.property \o " must be longer than or equal to "
                       \o ToString(m.min) \o " characters"
                ELSE m.property \o " must be shorter than or equal to "
                       \o ToString(m.max) \o " characters"
           [] OTHER -> ""

\* ValidationPipe({groups}).transform: the messages of the violated rules.
\* A property is skipped when an IsOptional entry is among the metadata of
\* the run and the property is undefined.
Validate(dto, groups, input) ==
    LET metas == TargetMetadatas(dto, groups)
        skipped(p) == /\ \E c \in metas : c.property = p /\ c.type = "isOptional"
                      /\ p \notin DOMAIN input
    IN { MessageOf(m, input) :
           m \in { r \in metas : /\ r.type # "isOptional"
                                 /\ ~skipped(r.property)
                                 /\ ~Satisfies(r, input) } }

(***************************************************************************)
(* Repository<Event>: the table, keyed by the generated primary column.    *)
(***************************************************************************)

\* { ...base, ...over }
Override(base, over) ==
    [k \in DOMAIN base \cup DOMAIN over |->
        IF k \in DOMAIN over THEN over[k] ELSE base[k]]

\* Path parameters are strings.  ParseIntPipe accepts the numeric ones.
IsNumeric(s) == \E i \in 0..(MaxId + 1) : ToString(i) = s

ParseInt(s) == CHOOSE i \in 0..(MaxId + 1) : ToString(i) = s

\* The integer the store compares the id column with when it is handed the
\* raw path parameter: a non-numeric string converts to 0.
ColumnValue(s) == IF IsNumeric(s) THEN ParseInt(s) ELSE 0

\* Mutant of RepositoryFind: the select of practiceQueries (id and name).
RepositoryFindIdName(st) ==
    {[f \in {"id", "name"} \cap DOMAIN st[k] |-> st[k][f]] : k \in DOMAIN st}

\* repository.find(): every row.
RepositoryFind(st) == {st[k] : k \in DOMAIN st}

\* Mutant of FindOneBy: the key is not applied and the first row is returned.
FindOneFirstRow(st, key) ==
    {st[k] : k \in {j \in DOMAIN st : \A i \in DOMAIN st : j <= i}}

\* repository.findOneBy({ id }): the row or null, as a set of at most one.
FindOneBy(st, key) == {st[k] : k \in DOMAIN st \cap {key}}

\* The primary key save() writes: the entity's own id when it carries one,
\* the next auto-increment value otherwise.
SavedKey(next, entity) ==
    IF "id" \in DOMAIN entity THEN entity["id"] ELSE next

\* repository.save(entity): the object save() resolves to.
SavedEntity(next, entity) ==
    Override(entity, [id |-> SavedKey(next, entity)])

\* repository.save(entity): insert-or-update by primary key.  An existing
\* row has the columns the entity carries overwritten; otherwise a row is
\* inserted.
SavedStore(st, next, entity) ==
    LET key == SavedKey(next, entity)
        row == IF key \in DOMAIN st
               THEN Override(st[key], entity)
               ELSE SavedEntity(next, entity)
    IN [k \in DOMAIN st \cup {key} |-> IF k = key THEN row ELSE st[k]]

\* The auto-increment counter after save(): past every key ever inserted.
SavedNext(next, entity) ==
    LET key == SavedKey(next, entity)
    IN IF key >= next THEN key + 1 ELSE next

\* Mutant of RepositoryRemove: the delete is not restricted to the row.
RepositoryRemoveEveryRow(st, event) == [k \in {} |-> st[k]]

\* repository.remove(event): the table without the row.
RepositoryRemove(st, event) ==
    [k \in DOMAIN st \ {event["id"]} |-> st[k]]

(***************************************************************************)
(* EventsController.                                                       *)
(***************************************************************************)

Response(op, id, input, status, message, body) ==
    [op |-> op, id |-> id, input |-> input, status |-> status,
     message |-> message, body |-> body]

NoBody == << >>

\* GET /events
FindAllResult(st) == RepositoryFind(st)

FindAll ==
    /\ last' = Response("findAll", "", NoBody, 200, {}, FindAllResult(store))
    /\ UNCHANGED <<store, autoInc>>

\* GET /events/:id  (the id passes ParseIntPipe first)
FindOne(id) ==
    /\ IF ~IsNumeric(id)
       THEN last' = Response("findOne", id, NoBody, 400,
                       {"Validation failed (numeric string is expected)"}, {})
       ELSE last' = Response("findOne", id, NoBody, 200, {},
                       FindOneBy(store, ParseInt(id)))
    /\ UNCHANGED <<store, autoInc>>

\* The groups each handler's ValidationPipe is built with.
CreateGroups == {"create"}

UpdateGroups == {"update"}

\* POST /events
CreateEntity(input) == Override(input, [when |-> NewDate(input)])

Create(input) ==
    LET errors == Validate(CreateEventDto, CreateGroups, input)
        entity == CreateEntity(input)
    IN IF errors # {}
       THEN /\ last' = Response("create", "", input, 400, errors, {})
            /\ UNCHANGED <<store, autoInc>>
       ELSE /\ SavedKey(autoInc, entity) <= MaxId
            /\ store' = SavedStore(store, autoInc, entity)
            /\ autoInc' = SavedNext(autoInc, entity)
            /\ last' = Response("create", "", input, 201, {},
                           {SavedEntity(autoInc, entity)})

\* PATCH /events/:id
\* { ...event, ...input, when: input.when ? new Date(input.when) : event.when }
UpdatedEvent(event, input) ==
    Override(Override(event, input),
             [when |-> IF Truthy(input) THEN NewDate(input) ELSE event["when"]])

Update(id, input) ==
    LET errors == Validate(UpdateEventDto, UpdateGroups, input)
        found  == FindOneBy(store, ColumnValue(id))
    IN IF errors # {}
       THEN /\ last' = Response("update", id, input, 400, errors, {})
            /\ UNCHANGED <<store, autoInc>>
       ELSE IF found = {} /\ ~Truthy(input)
       THEN \* event is null and event.when is read: TypeError
            /\ last' = Response("update", id, input, 500, {}, {})
            /\ UNCHANGED <<store, autoInc>>
       ELSE LET entity == IF found = {}
                          THEN Override(input, [when |-> NewDate(input)])
                          ELSE UpdatedEvent(CHOOSE e \in found : TRUE, input)
            IN /\ SavedKey(autoInc, entity) <= MaxId
               /\ store' = SavedStore(store, autoInc, entity)
               /\ autoInc' = SavedNext(autoInc, entity)
               /\ last' = Response("update", id, input, 200, {},
                              {SavedEntity(autoInc, entity)})

\* DELETE /events/:id
Remove(id) ==
    LET found == FindOneBy(store, ColumnValue(id))
    IN IF found = {}
       THEN \* repository.remove(null) rejects
            /\ last' = Response("remove", id, NoBody, 500, {}, {})
            /\ UNCHANGED <<store, autoInc>>
       ELSE /\ store' = RepositoryRemove(store, CHOOSE e \in found : TRUE)
            /\ last' = Response("remove", id, NoBody, 204, {}, {})
            /\ UNCHANGED autoInc

(***************************************************************************)
(* Requests.                                                               *)
(***************************************************************************)
PathIds == {ToString(i) : i \in 1..MaxId}

ReadmeBody ==
    [name |-> "a", description |-> "hi", when |-> "2022-02-02",
     address |-> "22 av"]

CreateBodies ==
    { ReadmeBody,
      [name |-> "Nest Meetup", description |-> "Lets meet together",
       when |-> "2022-02-02", address |-> "22 av"],
      [name |-> "Nest Meetup", description |-> "Lets meet together",
       when |-> "2022-02-02", address |-> "22av"],
      [id |-> 1, name |-> "Nest Meetup", description |-> "Lets meet together",
       when |-> "2022-02-02", address |-> "Office St 120"] }

UpdateBodies ==
    { << >>,
      [name |-> "NewName"],
      [address |-> "Office St 120"],
      [name |-> "NewName", when |-> "2023-03-03T10:00:00Z",
       address |-> "Office St 120"],
      [when |-> "", address |-> "Office St 120"],
      [id |-> 2, address |-> "Office St 120"] }

\* The requests SpecRace runs side by side.
Slots == {1, 2}

\* A request whose handler has not been entered.
Idle ==
    [phase |-> "idle", op |-> "none", id |-> "", input |-> NoBody,
     found |-> {}, status |-> 0]

Init ==
    /\ store = << >>
    /\ autoInc = 1
    /\ last = Response("none", "", NoBody, 0, {}, {})
    /\ inflight = [s \in Slots |-> Idle]

\* The routes, each handled from request to response with no other request
\* in between.
GetEvents == FindAll /\ UNCHANGED inflight

GetEvent(id) == FindOne(id) /\ UNCHANGED inflight

PostEvent(input) == Create(input) /\ UNCHANGED inflight

PatchEvent(id, input) == Update(id, input) /\ UNCHANGED inflight

DeleteEvent(id) == Remove(id) /\ UNCHANGED inflight

Next ==
    \/ GetEvents
    \/ \E id \in PathIds \cup {"abc"} : GetEvent(id)
    \/ \E input \in CreateBodies : PostEvent(input)
    \/ \E id \in PathIds, input \in UpdateBodies : PatchEvent(id, input)
    \/ \E id \in PathIds : DeleteEvent(id)

Spec == Init /\ [][Next]_vars

(***************************************************************************)
(* One request against a table holding one row: the bodies range over the  *)
(* presence and the lengths of the validated properties.                   *)
(***************************************************************************)
S5 == "01234"

S20 == S5 \o S5 \o S5 \o S5

S255 == S20 \o S20 \o S20 \o S20 \o S20 \o S20 \o S20 \o S20 \o S20 \o S20
            \o S20 \o S20 \o S5 \o S5 \o S5

Maybe(p, values) == {<< >>} \cup {[k \in {p} |-> v] : v \in values}

ProbeBodies ==
    { Override(Override(n, d), Override(w, a)) :
        n \in Maybe("name", {"a", "Nest Meetup"}),
        d \in Maybe("description", {"hi"}),
        w \in Maybe("when", {"2022-02-02", "tomorrow"}),
        a \in Maybe("address", {"22av", S5, "012345678", "0123456789", S20,
                                S20 \o "0", S255, S255 \o "0"}) }

InitPipe ==
    /\ store = [k \in {1} |->
                  [id |-> 1, name |-> "Nest Meetup",
                   description |-> "Lets meet together",
                   when |-> [iso |-> "2022-02-02T00:00:00.000Z"],
                   address |-> "22 av"]]
    /\ autoInc = 2
    /\ last = Response("none", "", NoBody, 0, {}, {})
    /\ inflight = [s \in Slots |-> Idle]

NextPipe ==
    /\ last.op = "none"
    /\ \E input \in ProbeBodies : PostEvent(input) \/ PatchEvent("1", input)

(***************************************************************************)
(* Two requests, each an update or a delete, against a table holding one   *)
(* row, interleaved at their awaits.                                       *)
(***************************************************************************)

\* update up to the first await: the pipe, then findOneBy({ id }).
UpdateFind(s, id, input) ==
    LET errors == Validate(UpdateEventDto, UpdateGroups, input)
    IN /\ inflight[s].phase = "idle"
       /\ UNCHANGED <<store, autoInc>>
       /\ IF errors # {}
          THEN /\ last' = Response("update", id, input, 400, errors, {})
               /\ inflight' = [inflight EXCEPT ![s] =
                     [phase |-> "done", op |-> "update", id |-> id,
                      input |-> input, found |-> {}, status |-> 400]]
          ELSE /\ last' = last
               /\ inflight' = [inflight EXCEPT ![s] =
                     [phase |-> "found", op |-> "update", id |-> id,
                      input |-> input,
                      found |-> FindOneBy(store, ColumnValue(id)),
                      status |-> 0]]

\* update after findOneBy resolved: updatedEvent is built from the event
\* read then, and saved into the table as it is now.
UpdateSave(s) ==
    LET req   == inflight[s]
        done(status) == [req EXCEPT !.phase = "done", !.status = status]
    IN /\ req.phase = "found" /\ req.op = "update"
       /\ IF req.found = {} /\ ~Truthy(req.input)
          THEN /\ last' = Response("update", req.id, req.input, 500, {}, {})
               /\ inflight' = [inflight EXCEPT ![s] = done(500)]
               /\ UNCHANGED <<store, autoInc>>
          ELSE LET entity ==
                     IF req.found = {}
                     THEN Override(req.input, [when |-> NewDate(req.input)])
                     ELSE UpdatedEvent(CHOOSE e \in req.found : TRUE, req.input)
               IN /\ SavedKey(autoInc, entity) <= MaxId
                  /\ store' = SavedStore(store, autoInc, entity)
                  /\ autoInc' = SavedNext(autoInc, entity)
                  /\ last' = Response("update", req.id, req.input, 200, {},
                                 {SavedEntity(autoInc, entity)})
                  /\ inflight' = [inflight EXCEPT ![s] = done(200)]

\* remove up to the first await: findOneBy({ id }).
RemoveFind(s, id) ==
    /\ inflight[s].phase = "idle"
    /\ inflight' = [inflight EXCEPT ![s] =
          [phase |-> "found", op |-> "remove", id |-> id, input |-> NoBody,
           found |-> FindOneBy(store, ColumnValue(id)), status |-> 0]]
    /\ UNCHANGED <<store, autoInc, last>>

\* remove after findOneBy resolved: repository.remove(event).
RemoveEvent(s) ==
    LET req == inflight[s]
    IN /\ req.phase = "found" /\ req.op = "remove"
       /\ UNCHANGED autoInc
       /\ IF req.found = {}
          THEN /\ last' = Response("remove", req.id, NoBody, 500, {}, {})
               /\ inflight' = [inflight EXCEPT ![s] =
                     [req EXCEPT !.phase = "done", !.status = 500]]
               /\ UNCHANGED store
          ELSE /\ store' = RepositoryRemove(store, CHOOSE e \in req.found : TRUE)
               /\ last' = Response("remove", req.id, NoBody, 204, {}, {})
               /\ inflight' = [inflight EXCEPT ![s] =
                     [req EXCEPT !.phase = "done", !.status = 204]]

\* Update bodies the update pipe accepts; every one carries the address the
\* row already has.
RaceBodies ==
    { [name |-> "NewName", address |-> "Office St 120"],
      [when |-> "2023-03-03T10:00:00Z", address |-> "Office St 120"],
      [name |-> "a", address |-> "Office St 120"] }

InitRace ==
    /\ store = [k \in {1} |->
                  [id |-> 1, name |-> "Nest Meetup",
                   description |-> "Lets meet together",
                   when |-> [iso |-> "2022-02-02T00:00:00.000Z"],
                   address |-> "Office St 120"]]
    /\ autoInc = 2
    /\ last = Response("none", "", NoBody, 0, {}, {})
    /\ inflight = [s \in Slots |-> Idle]

NextRace ==
    \E s \in Slots :
       \/ \E id \in PathIds, input \in RaceBodies : UpdateFind(s, id, input)
       \/ UpdateSave(s)
       \/ \E id \in PathIds : RemoveFind(s, id)
       \/ RemoveEvent(s)

SpecRace == InitRace /\ [][NextRace]_vars

SpecPipe == InitPipe /\ [][NextPipe]_vars

(***************************************************************************)
(* Properties.                                                             *)
(***************************************************************************)

\* The rules CreateEventDto declares for an operation: those tagged with
\* its group and those tagged with none.
FieldRules(group) ==
    {m \in CreateEventDto : m.groups = {} \/ group \in m.groups}

\* The messages of the rules of `rules` that `input` violates.
Violations(rules, input) ==
    {MessageOf(m, input) : m \in {r \in rules : ~Satisfies(r, input)}}

\* The id column value a request's path parameter addresses.
Target(req) == ColumnValue(req.id)

\* A row is the prior row with the supplied properties of `input` put in
\* place (`when` parsed) and everything else kept.
MergedOnto(row, prior, input) ==
    /\ DOMAIN row = DOMAIN prior
    /\ \A f \in DOMAIN prior :
         row[f] = IF f \in DOMAIN input \cap Fields
                  THEN (IF f = "when" THEN NewDate(input) ELSE input[f])
                  ELSE prior[f]

\* C1: a create whose payload passes create-group validation adds exactly
\* one record carrying the payload's name, description and address and the
\* parsed date, under an identifier no stored record used, changes no
\* previously stored record, and returns the new record.
CreatePersistsNewRecord ==
    [][ (last'.op = "create" /\ last'.status # 400) =>
          \E k \in DOMAIN store' \ DOMAIN store :
             /\ DOMAIN store' = DOMAIN store \cup {k}
             /\ \A j \in DOMAIN store : store'[j] = store[j]
             /\ store'[k]["id"] = k
             /\ \A f \in {"name", "description", "address"} \cap DOMAIN last'.input :
                   store'[k][f] = last'.input[f]
             /\ store'[k]["when"] = NewDate(last'.input)
             /\ last'.body = {store'[k]} ]_vars

\* C2: a create whose payload violates a field rule of the create payload
\* is answered with a validation error listing the violated rules, and the
\* store is as it was.
CreateRejectsRuleViolations ==
    [][ (last'.op = "create"
           /\ Violations(FieldRules("create"), last'.input) # {}) =>
          /\ last'.status = 400
          /\ last'.message = Violations(FieldRules("create"), last'.input)
          /\ store' = store ]_vars

\* C3: POST /events with the README's payload is answered 400 with the
\* message "name must have a length between [5,25]" and persists nothing.
ReadmePayloadRejected ==
    [][ (last'.op = "create" /\ last'.input = ReadmeBody) =>
          /\ last'.status = 400
          /\ "name must have a length between [5,25]" \in last'.message
          /\ store' = store ]_vars

\* C4: an accepted update of an existing record persists and returns the
\* prior record with the supplied fields replaced and the others kept,
\* update(id, {name: "NewName"}) being such an update that changes only
\* name, and changes no other stored record.
UpdateMergesSuppliedFields ==
    [][ (last'.op = "update" /\ Target(last') \in DOMAIN store) =>
          /\ last'.input = [name |-> "NewName"] => last'.status = 200
          /\ last'.status # 400 =>
               /\ DOMAIN store' = DOMAIN store
               /\ \A j \in DOMAIN store \ {Target(last')} : store'[j] = store[j]
               /\ MergedOnto(store'[Target(last')], store[Target(last')],
                             last'.input)
               /\ last'.body = {store'[Target(last')]} ]_vars

\* C5: every stored record keeps the identifier it was created with, and an
\* update addressed to id X modifies no stored record other than X.
IdentifierImmutable ==
    [][ /\ \A k \in DOMAIN store' : store'[k]["id"] = k
        /\ last'.op = "update" =>
             \A j \in DOMAIN store \ {Target(last')} :
                j \in DOMAIN store' /\ store'[j] = store[j] ]_vars

\* C6: create accepts a supplied address exactly when its length is within
\* 5..255, update exactly when it is within 10..20.
AddressBoundsByOperation ==
    "address" \in DOMAIN last.input =>
       /\ last.op = "create" =>
            (last.status # 400 <=> /\ Len(last.input["address"]) >= 5
                                   /\ Len(last.input["address"]) <= 255)
       /\ last.op = "update" =>
            (last.status # 400 <=> /\ Len(last.input["address"]) >= 10
                                   /\ Len(last.input["address"]) <= 20)

\* C6 witness: an address of length 5, within the create bounds, rejected
\* by update.
AddressBoundsWitness ==
    /\ last.op = "update" /\ last.status = 400
    /\ "address" \in DOMAIN last.input
    /\ Len(last.input["address"]) = 5

\* C7: once delete(id) of an existing record has completed, fetchById(id)
\* finds no record, and every other stored record is present and unchanged.
RemoveThenFindOneEmpty ==
    [][ (last'.op = "remove" /\ Target(last') \in DOMAIN store) =>
          /\ last'.status = 204
          /\ FindOneBy(store', ParseInt(last'.id)) = {}
          /\ \A r \in RepositoryFind(store') : r["id"] # Target(last')
          /\ \A j \in DOMAIN store \ {Target(last')} :
                j \in DOMAIN store' /\ store'[j] = store[j] ]_vars

\* C7 witness: a delete has completed with another record still stored.
RemoveWitness ==
    last.op = "remove" /\ last.status = 204 /\ DOMAIN store # {}

\* C8: fetchById(id) returns the stored record whose identifier is id, or
\* nothing when there is none; it reports no not-found error and leaves the
\* store as it was.
FindOneReturnsRecordOrNull ==
    [][ last'.op = "findOne" =>
          /\ store' = store /\ autoInc' = autoInc
          /\ last'.status # 404
          /\ IsNumeric(last'.id) =>
               /\ last'.status = 200
               /\ last'.body = IF ParseInt(last'.id) \in DOMAIN store
                               THEN {store[ParseInt(last'.id)]}
                               ELSE {} ]_vars

\* C8 witness: a fetch answered with a record while two are stored.
FindOneWitness ==
    /\ last.op = "findOne" /\ last.status = 200
    /\ Cardinality(DOMAIN store) = 2
    /\ last.body # {}

\* C9: list() returns exactly the records stored and leaves the store as it
\* was.
FindAllReturnsStore ==
    [][ last'.op = "findAll" =>
          /\ store' = store /\ autoInc' = autoInc
          /\ last'.status = 200
          /\ \A k \in DOMAIN store : store[k] \in last'.body
          /\ \A r \in last'.body : r["id"] \in DOMAIN store /\ store[r["id"]] = r
      ]_vars

\* C9 witness: a list answered after creates, an update and a delete left
\* one updated record stored.
FindAllWitness ==
    /\ last.op = "findAll"
    /\ autoInc = 3
    /\ \E r \in last.body : r["when"] = [iso |-> "2023-03-03T10:00:00.000Z"]
    /\ Cardinality(last.body) = 1

\* C10: an update payload omitting any of the four fields is accepted when
\* the fields it does supply satisfy their rules, and an omitted `when`
\* leaves the stored date as it was.
UpdateAcceptsPartialPayload ==
    [][ (last'.op = "update"
           /\ DOMAIN last'.input \subseteq Fields
           /\ Violations({m \in FieldRules("update") :
                             m.property \in DOMAIN last'.input},
                         last'.input) = {}) =>
          /\ last'.status # 400
          /\ ("when" \notin DOMAIN last'.input
                /\ Target(last') \in DOMAIN store) =>
               /\ Target(last') \in DOMAIN store'
               /\ store'[Target(last')]["when"] = store[Target(last')]["when"]
      ]_vars

\* C11: an update or delete whose id matches no stored record leaves the
\* stored records as they were, whatever the payload.
UnknownIdLeavesStore ==
    [][ (last'.op \in {"update", "remove"}
           /\ Target(last') \notin DOMAIN store) =>
          store' = store ]_vars

\* The values a row carries for the properties `input` supplies.
Carries(row, input) ==
    \A f \in DOMAIN input \cap Fields :
       /\ f \in DOMAIN row
       /\ row[f] = IF f = "when" THEN NewDate(input) ELSE input[f]

\* An update of a record that was stored when the handler read it,
\* answered 200.
UpdateCompleted(req) ==
    /\ req.phase = "done" /\ req.op = "update" /\ req.status = 200
    /\ req.found # {}

\* C12: when two updates of one existing id that supply disjoint fields have
\* both completed, the stored record carries the supplied values of both,
\* however their find and save steps interleaved.  (The update pipe accepts
\* no payload without an address, so two completed updates always both
\* supply it; a field both payloads supply with the same value is not
\* counted against their being disjoint.)
NoLostUpdate ==
    \A s \in Slots : \A t \in Slots \ {s} :
       ( /\ UpdateCompleted(inflight[s]) /\ UpdateCompleted(inflight[t])
         /\ Target(inflight[s]) = Target(inflight[t])
         /\ \A f \in DOMAIN inflight[s].input \cap DOMAIN inflight[t].input :
               inflight[s].input[f] = inflight[t].input[f] ) =>
       /\ Target(inflight[s]) \in DOMAIN store
       /\ Carries(store[Target(inflight[s])], inflight[s].input)
       /\ Carries(store[Target(inflight[s])], inflight[t].input)

\* C13: once a delete(id) has completed no record with that id is stored
\* again (no request of SpecRace creates one): an update that read the
\* record before the removal and saves after it does not bring it back.
DeletedStaysDeleted ==
    \A s \in Slots :
       ( /\ inflight[s].phase = "done" /\ inflight[s].op = "remove"
         /\ inflight[s].status = 204 ) =>
       Target(inflight[s]) \notin DOMAIN store

====
